---- MODULE Spec2Model ----
(***************************************************************************)
(* Clinic Management API (src/main.py, src/schemas.py).                    *)
(*                                                                         *)
(* The model covers the appointment scheduler (create_appointment), the    *)
(* three filtered listings (list_appointments, list_invoices,              *)
(* list_payments) and the two billing inserts.  The record store gateway   *)
(* (create_document / get_documents, imported from the module "database")  *)
(* is modelled from its documented contract, with a reachable store.       *)
(*                                                                         *)
(* Strings that the code parses are sequences of one-character strings, so *)
(* that datetime.strptime is modelled by what it does.  A datetime is a    *)
(* record [day, minute]: the proleptic Gregorian ordinal of the date       *)
(* (date.toordinal()) and the minute of the day; seconds are always zero.  *)
(* An Optional[str] is <<>> for None and <<s>> for the string s.           *)
(***************************************************************************)
EXTENDS Integers, Sequences, FiniteSets, TLC

VARIABLES appointment, invoice, payment, request, response, inflight

vars == <<appointment, invoice, payment, request, response, inflight>>

----------------------------------------------------------------------------
(* datetime / timedelta arithmetic (Python standard library semantics)     *)

IsLeap(y) == (y % 4 = 0) /\ ((y % 100 # 0) \/ (y % 400 = 0))

DaysInMonth(y, m) ==
    IF m = 2 THEN (IF IsLeap(y) THEN 29 ELSE 28)
    ELSE IF m \in {4, 6, 9, 11} THEN 30 ELSE 31

RECURSIVE DaysBeforeMonth(_, _)
DaysBeforeMonth(y, m) ==
    IF m = 1 THEN 0 ELSE DaysBeforeMonth(y, m - 1) + DaysInMonth(y, m - 1)

DaysBeforeYear(y) ==
    (y - 1) * 365 + ((y - 1) \div 4) - ((y - 1) \div 100) + ((y - 1) \div 400)

\* date(y, m, d).toordinal(); 0001-01-01 is day 1
Ymd2Ord(y, m, d) == DaysBeforeYear(y) + DaysBeforeMonth(y, m) + d

\* datetime.min is 0001-01-01 00:00, datetime.max is on 9999-12-31
MinOrdinal == Ymd2Ord(1, 1, 1)
MaxOrdinal == Ymd2Ord(9999, 12, 31)

NoDatetime == [day |-> 0, minute |-> 0]

\* the datetime constructor: ValueError when a field is out of range
MakeDatetime(y, m, d, hh, mm) ==
    IF /\ y >= 1 /\ y <= 9999
       /\ m >= 1 /\ m <= 12
       /\ d >= 1 /\ d <= DaysInMonth(y, m)
       /\ hh >= 0 /\ hh <= 23
       /\ mm >= 0 /\ mm <= 59
    THEN [ok |-> TRUE, dt |-> [day |-> Ymd2Ord(y, m, d), minute |-> hh * 60 + mm]]
    ELSE [ok |-> FALSE, dt |-> NoDatetime]

\* datetime + timedelta(minutes = n): OverflowError outside [datetime.min, datetime.max]
AddMinutes(dt, n) ==
    LET total == dt.minute + n
        d     == dt.day + (total \div 1440)
    IN  IF d >= MinOrdinal /\ d <= MaxOrdinal
        THEN [ok |-> TRUE, dt |-> [day |-> d, minute |-> total % 1440]]
        ELSE [ok |-> FALSE, dt |-> NoDatetime]

\* datetime + timedelta(days = n)
AddDays(dt, n) == AddMinutes(dt, n * 1440)

DtLt(a, b) == (a.day < b.day) \/ (a.day = b.day /\ a.minute < b.minute)
DtLe(a, b) == (a.day < b.day) \/ (a.day = b.day /\ a.minute <= b.minute)
DtGt(a, b) == DtLt(b, a)
DtGe(a, b) == DtLe(b, a)

----------------------------------------------------------------------------
(* datetime.strptime for the two formats the handlers use.  Every numeric  *)
(* directive is followed by a literal that is not a digit, or by the end   *)
(* of the string, so the directive must cover the whole run of digits.     *)

IsDigit(c) == c \in {"0", "1", "2", "3", "4", "5", "6", "7", "8", "9"}

DigitVal(c) ==
    CASE c = "0" -> 0 [] c = "1" -> 1 [] c = "2" -> 2 [] c = "3" -> 3
      [] c = "4" -> 4 [] c = "5" -> 5 [] c = "6" -> 6 [] c = "7" -> 7
      [] c = "8" -> 8 [] c = "9" -> 9

DigitAt(s, i) == i >= 1 /\ i <= Len(s) /\ IsDigit(s[i])

CharAt(s, i, c) == i >= 1 /\ i <= Len(s) /\ s[i] = c

\* number of digits of s from position i on, counted up to 3
DigitRun(s, i) ==
    IF ~DigitAt(s, i) THEN 0
    ELSE IF ~DigitAt(s, i + 1) THEN 1
    ELSE IF ~DigitAt(s, i + 2) THEN 2 ELSE 3

\* value of the n digits of s starting at i
RECURSIVE NumAt(_, _, _)
NumAt(s, i, n) ==
    IF n = 0 THEN 0 ELSE NumAt(s, i, n - 1) * 10 + DigitVal(s[i + n - 1])

\* number of blanks of s from position i on
RECURSIVE BlankRun(_, _)
BlankRun(s, i) == IF CharAt(s, i, " ") THEN 1 + BlankRun(s, i + 1) ELSE 0

NoField == [len |-> 0, val |-> 0]

\* a run of r digits read as a field: two digits with value v2 in lo..hi
\* (a leading 0 allowed), or the single digit v1 >= lo1
FieldOfRun(r, v2, v1, lo, hi, lo1) ==
    IF r = 2 /\ v2 >= lo /\ v2 <= hi THEN [len |-> 2, val |-> v2]
    ELSE IF r = 1 /\ v1 >= lo1 THEN [len |-> 1, val |-> v1]
    ELSE NoField

\* one or two digits at i whose value lies in lo..hi
TwoDigitField(s, i, lo, hi, lo1) ==
    FieldOfRun(DigitRun(s, i),
               IF DigitRun(s, i) = 2 THEN NumAt(s, i, 2) ELSE 0,
               IF DigitRun(s, i) = 1 THEN NumAt(s, i, 1) ELSE 0,
               lo, hi, lo1)

\* %Y : \d\d\d\d
YearField(s, i) ==
    IF DigitAt(s, i) /\ DigitAt(s, i + 1) /\ DigitAt(s, i + 2) /\ DigitAt(s, i + 3)
       /\ ~DigitAt(s, i + 4)
    THEN [len |-> 4, val |-> NumAt(s, i, 4)]
    ELSE NoField

\* %m : 1[0-2]|0[1-9]|[1-9]
MonthField(s, i) == TwoDigitField(s, i, 1, 12, 1)

\* %d : 3[0-1]|[1-2]\d|0[1-9]|[1-9]| [1-9]
DayField(s, i) ==
    IF CharAt(s, i, " ")
    THEN IF DigitRun(s, i + 1) = 1 /\ NumAt(s, i + 1, 1) >= 1
         THEN [len |-> 2, val |-> NumAt(s, i + 1, 1)]
         ELSE NoField
    ELSE TwoDigitField(s, i, 1, 31, 1)

\* %H : 2[0-3]|[0-1]\d|\d
HourField(s, i) == TwoDigitField(s, i, 0, 23, 0)

\* %M : [0-5]\d|\d
MinuteField(s, i) == TwoDigitField(s, i, 0, 59, 0)

ParseFail == [ok |-> FALSE, dt |-> NoDatetime]

NoDate == [ok |-> FALSE, y |-> 0, m |-> 0, d |-> 0, next |-> 0]

\* the "%Y-%m-%d" prefix, field by field: the three values and the position
\* after the day
DateAfterDay(y, m, d, pd) ==
    IF d.len > 0
    THEN [ok |-> TRUE, y |-> y.val, m |-> m.val, d |-> d.val, next |-> pd + d.len]
    ELSE NoDate

DateAfterMonth(s, y, m, pm) ==
    IF m.len > 0 /\ CharAt(s, pm + m.len, "-")
    THEN DateAfterDay(y, m, DayField(s, pm + m.len + 1), pm + m.len + 1)
    ELSE NoDate

DateAfterYear(s, y) ==
    IF y.len > 0 /\ CharAt(s, 1 + y.len, "-")
    THEN DateAfterMonth(s, y, MonthField(s, y.len + 2), y.len + 2)
    ELSE NoDate

DatePrefix(s) == DateAfterYear(s, YearField(s, 1))

DateOf(s, p) ==
    IF p.ok /\ p.next = Len(s) + 1 THEN MakeDatetime(p.y, p.m, p.d, 0, 0) ELSE ParseFail

\* datetime.strptime(s, "%Y-%m-%d"); ok = FALSE stands for ValueError
StrptimeDate(s) == DateOf(s, DatePrefix(s))

\* the " %H:%M" rest, field by field, to the end of the text
TimeAfterMinute(s, p, h, mi, pM) ==
    IF mi.len > 0 /\ pM + mi.len = Len(s) + 1
    THEN MakeDatetime(p.y, p.m, p.d, h.val, mi.val)
    ELSE ParseFail

TimeAfterHour(s, p, h, ph) ==
    IF h.len > 0 /\ CharAt(s, ph + h.len, ":")
    THEN TimeAfterMinute(s, p, h, MinuteField(s, ph + h.len + 1), ph + h.len + 1)
    ELSE ParseFail

TimeAfterBlanks(s, p, w) ==
    IF w >= 1 THEN TimeAfterHour(s, p, HourField(s, p.next + w), p.next + w)
    ELSE ParseFail

TimeAfterDate(s, p) ==
    IF p.ok THEN TimeAfterBlanks(s, p, BlankRun(s, p.next)) ELSE ParseFail

\* datetime.strptime(s, "%Y-%m-%d %H:%M"); ok = FALSE stands for ValueError
StrptimeDateTime(s) == TimeAfterDate(s, DatePrefix(s))

----------------------------------------------------------------------------
(* Optional[str] parameters and Python truthiness                          *)

None == <<>>
Some(x) == <<x>>

\* "if param:" is false for None and for the empty string
Truthy(p) == p # None /\ p[1] # ""

----------------------------------------------------------------------------
(* Record store gateway: create_document / get_documents.  A collection is *)
(* the sequence of its documents in insertion order; a filter expression   *)
(* is a sequence of clauses <<field, operator, value>>, all of which a     *)
(* matching document satisfies.                                            *)

Clause(doc, c) ==
    CASE c[2] = "$eq"  -> doc[c[1]] = c[3]
      [] c[2] = "$lt"  -> DtLt(doc[c[1]], c[3])
      [] c[2] = "$lte" -> DtLe(doc[c[1]], c[3])
      [] c[2] = "$gt"  -> DtGt(doc[c[1]], c[3])
      [] c[2] = "$gte" -> DtGe(doc[c[1]], c[3])

Matches(doc, query) == \A k \in 1..Len(query) : Clause(doc, query[k])

\* get_documents(collection, filter): every matching document, with its id
get_documents(collection, query) ==
    SelectSeq(collection, LAMBDA doc : Matches(doc, query))

\* the identifier the store assigns to the next document of a collection
NewId(name, collection) == <<name, Len(collection) + 1>>

\* create_document(name, data): the collection after the insert
create_document(name, collection, data) ==
    Append(collection, [id |-> NewId(name, collection)] @@ data)

----------------------------------------------------------------------------
(* HTTP outcomes                                                           *)

NoId == <<>>

Ok(id, body)         == [status |-> 200, detail |-> "", id |-> id, body |-> body]
HTTPException(c, d)  == [status |-> c, detail |-> d, id |-> NoId, body |-> <<>>]
\* an exception no handler catches: the framework answers 500
Unhandled            == HTTPException(500, "Internal Server Error")

----------------------------------------------------------------------------
(* POST /appointments                                                      *)

\* schemas.Appointment: status defaults to "scheduled"
Statuses == {"scheduled", "checked_in", "completed", "cancelled"}

Appointment(clinic_id, doctor_id, patient_id, starts_at, ends_at, reason) ==
    [clinic_id |-> clinic_id, doctor_id |-> doctor_id, patient_id |-> patient_id,
     starts_at |-> starts_at, ends_at |-> ends_at, reason |-> reason,
     status |-> "scheduled"]

\* datetime.strptime(f"{req.date} {req.start_time}", "%Y-%m-%d %H:%M")
ParseStart(req) == StrptimeDateTime(req.date \o <<" ">> \o req.start_time)

\* variant: only appointments still scheduled block a window
OverlapQuery_ScheduledOnly(doctor_id, starts_at, ends_at) ==
    << <<"doctor_id", "$eq", doctor_id>>,
       <<"status", "$eq", "scheduled">>,
       <<"starts_at", "$lt", ends_at>>,
       <<"ends_at", "$gt", starts_at>> >>

\* variant: closed intervals, so that adjacent windows intersect
OverlapQuery_Inclusive(doctor_id, starts_at, ends_at) ==
    << <<"doctor_id", "$eq", doctor_id>>,
       <<"starts_at", "$lte", ends_at>>,
       <<"ends_at", "$gte", starts_at>> >>

\* variant: the stored end is compared with the new end
OverlapQuery_EndVsEnd(doctor_id, starts_at, ends_at) ==
    << <<"doctor_id", "$eq", doctor_id>>,
       <<"starts_at", "$lt", ends_at>>,
       <<"ends_at", "$gt", ends_at>> >>

\* the filter of the overlap check
OverlapQuery(doctor_id, starts_at, ends_at) ==
    << <<"doctor_id", "$eq", doctor_id>>,
       <<"starts_at", "$lt", ends_at>>,
       <<"ends_at", "$gt", starts_at>> >>

Refused(resp) ==
    [pass |-> FALSE, starts_at |-> NoDatetime, ends_at |-> NoDatetime, resp |-> resp]

\* the overlap check for the window [starts_at, e.dt), e being the outcome
\* of the addition at line 109
CheckWindow(collection, req, starts_at, e) ==
    IF ~e.ok THEN Refused(Unhandled)
    ELSE IF get_documents(collection, OverlapQuery(req.doctor_id, starts_at, e.dt)) # <<>>
    THEN Refused(HTTPException(409, "overlap"))
    ELSE [pass |-> TRUE, starts_at |-> starts_at, ends_at |-> e.dt,
          resp |-> Ok(NoId, <<>>)]

\* variant: the ValueError of strptime is not caught
CheckParsed_Uncaught(collection, req, s) ==
    IF ~s.ok THEN Refused(Unhandled)
    ELSE CheckWindow(collection, req, s.dt, AddMinutes(s.dt, req.duration_minutes))

\* s is the outcome of strptime: ValueError is answered with 400
CheckParsed(collection, req, s) ==
    IF ~s.ok THEN Refused(HTTPException(400, "Invalid date or time format"))
    ELSE CheckWindow(collection, req, s.dt, AddMinutes(s.dt, req.duration_minutes))

\* create_appointment up to the overlap check, against the collection as it
\* is when the query runs: the response that ends the request, or "pass"
\* with the two instants
CheckAppointment(collection, req) == CheckParsed(collection, req, ParseStart(req))

\* the document create_appointment builds once the check has passed
BuildAppointment(req, starts_at, ends_at) ==
    Appointment(req.clinic_id, req.doctor_id, req.patient_id,
                starts_at, ends_at, req.reason)

----------------------------------------------------------------------------
(* GET /appointments                                                       *)

\* "if param:" for a parameter holding text that is parsed
TruthyText(p) == p # None /\ p[1] # <<>>

\* variant: only None is skipped, an empty string is compared
EqClause_NotNone(field, p) == IF p # None THEN << <<field, "$eq", p[1]>> >> ELSE <<>>

\* "if param: query[field] = param"
EqClause(field, p) == IF Truthy(p) THEN << <<field, "$eq", p[1]>> >> ELSE <<>>

\* the date_filter dictionary of list_appointments, f and t being the
\* outcomes of strptime for the bounds that are given and t1 that of adding
\* one day; ok = FALSE when strptime raises ValueError or the added day
\* raises OverflowError
DateClauses(hasFrom, hasTo, f, t, t1) ==
    IF hasFrom /\ ~f.ok THEN [ok |-> FALSE, clauses |-> <<>>]
    ELSE IF hasTo /\ (~t.ok \/ ~t1.ok) THEN [ok |-> FALSE, clauses |-> <<>>]
    ELSE [ok |-> TRUE,
          clauses |->
            (IF hasFrom THEN << <<"starts_at", "$gte", f.dt>> >> ELSE <<>>)
            \o (IF hasTo THEN << <<"starts_at", "$lte", t1.dt>> >> ELSE <<>>)]

DateBounds(hasFrom, hasTo, f, t) ==
    DateClauses(hasFrom, hasTo, f, t, IF t.ok THEN AddDays(t.dt, 1) ELSE ParseFail)

DateFilter(from_date, to_date) ==
    IF ~(TruthyText(from_date) \/ TruthyText(to_date))
    THEN [ok |-> TRUE, clauses |-> <<>>]
    ELSE DateBounds(TruthyText(from_date), TruthyText(to_date),
                    IF TruthyText(from_date) THEN StrptimeDate(from_date[1]) ELSE ParseFail,
                    IF TruthyText(to_date) THEN StrptimeDate(to_date[1]) ELSE ParseFail)

ListWith(collection, eq, df) ==
    IF ~df.ok THEN Unhandled ELSE Ok(NoId, get_documents(collection, eq \o df.clauses))

\* the response of list_appointments over the collection
ListAppointmentsResponse(collection, q) ==
    ListWith(collection,
             EqClause("clinic_id", q.clinic_id)
             \o EqClause("doctor_id", q.doctor_id)
             \o EqClause("patient_id", q.patient_id),
             DateFilter(q.from_date, q.to_date))

----------------------------------------------------------------------------
(* Texts and requests the model draws its inputs from                      *)

D_Leap      == <<"2","0","2","4","-","0","2","-","2","9">>
D_LeapShort == <<"2","0","2","4","-","2","-","2","9">>
D_Feb30     == <<"2","0","2","4","-","0","2","-","3","0">>
D_Mar01     == <<"2","0","2","4","-","0","3","-","0","1">>
D_Last      == <<"9","9","9","9","-","1","2","-","3","1">>
D_Slashes   == <<"2","0","2","4","/","0","2","/","2","9">>

T_0000  == <<"0","0",":","0","0">>
T_1000  == <<"1","0",":","0","0">>
T_1015  == <<"1","0",":","1","5">>
T_1030  == <<"1","0",":","3","0">>
T_2345  == <<"2","3",":","4","5">>
T_930s  == <<"9",":","3","0">>
T_2500  == <<"2","5",":","0","0">>

AppointmentRequest(clinic_id, doctor_id, patient_id, date, start_time, duration_minutes, reason) ==
    [clinic_id |-> clinic_id, doctor_id |-> doctor_id, patient_id |-> patient_id,
     date |-> date, start_time |-> start_time,
     duration_minutes |-> duration_minutes, reason |-> reason]

\* one doctor's morning with overlapping, adjacent, empty and inverted
\* windows, the same window for another doctor, a midnight start, a lenient
\* spelling, the last day of the calendar, and three texts that do not parse
CreateRequests ==
    { AppointmentRequest("c1", "d1", "p1", D_Leap, t, 30, None)
        : t \in {T_1000, T_1015, T_1030} }
    \cup
    { AppointmentRequest("c1", "d1", "p1", D_Leap, T_1015, n, Some("follow-up"))
        : n \in {0, -30} }
    \cup
    { AppointmentRequest("c1", "d2", "p1", D_Leap, T_1000, 30, None),
      AppointmentRequest("c1", "d1", "p1", D_Mar01, T_0000, 30, None),
      AppointmentRequest("c1", "d2", "p1", D_LeapShort, T_930s, 30, None),
      AppointmentRequest("c1", "d1", "p1", D_Last, T_2345, 10, None),
      AppointmentRequest("c1", "d1", "p1", D_Last, T_2345, 30, None),
      AppointmentRequest("c1", "d1", "p1", D_Feb30, T_1000, 30, None),
      AppointmentRequest("c1", "d1", "p1", D_Slashes, T_1000, 30, None),
      AppointmentRequest("c1", "d1", "p1", D_Leap, T_2500, 30, None) }

AppointmentQuery(clinic_id, doctor_id, patient_id, from_date, to_date) ==
    [clinic_id |-> clinic_id, doctor_id |-> doctor_id, patient_id |-> patient_id,
     from_date |-> from_date, to_date |-> to_date]

DateRangeQueries ==
    { AppointmentQuery(None, d, None, f, t)
        : d \in {None, Some("d1")},
          f \in {None, Some(D_Leap), Some(D_Mar01), Some(D_Slashes)},
          t \in {None, Some(D_Leap), Some(D_Last), Some(D_Feb30)} }

----------------------------------------------------------------------------
(* State and atomic requests                                               *)

MaxAppts == 2

Workers == {"w1", "w2"}

\* a worker thread of the handler pool with no request in progress
Idle ==
    [pc |-> "idle", req |-> <<>>, starts_at |-> NoDatetime, ends_at |-> NoDatetime,
     resp |-> [status |-> 0, detail |-> "", id |-> NoId, body |-> <<>>]]

NoRequest == [op |-> "none"]

InitCommon ==
    /\ invoice = <<>>
    /\ payment = <<>>
    /\ request = NoRequest
    /\ response = [status |-> 0, detail |-> "", id |-> NoId, body |-> <<>>]
    /\ inflight = [w \in Workers |-> Idle]

Init ==
    /\ appointment = <<>>
    /\ InitCommon

\* the handler after the overlap check with outcome c
Schedule(req, c) ==
    /\ c.pass => Len(appointment) < MaxAppts
    /\ request' = [op |-> "create_appointment", args |-> req]
    /\ IF c.pass
       THEN /\ appointment' = create_document("appointment", appointment,
                                  BuildAppointment(req, c.starts_at, c.ends_at))
            /\ response' = Ok(NewId("appointment", appointment), <<>>)
       ELSE /\ appointment' = appointment
            /\ response' = c.resp
    /\ UNCHANGED <<invoice, payment, inflight>>

\* POST /appointments, the whole handler in one step
CreateAppointment(req) == Schedule(req, CheckAppointment(appointment, req))

\* GET /appointments
ListAppointments(q) ==
    /\ request' = [op |-> "list_appointments", args |-> q]
    /\ response' = ListAppointmentsResponse(appointment, q)
    /\ UNCHANGED <<appointment, invoice, payment, inflight>>

Next ==
    \/ \E req \in CreateRequests : CreateAppointment(req)
    \/ \E q \in DateRangeQueries : ListAppointments(q)

Spec == Init /\ [][Next]_vars

\* a store that already holds one appointment, in any status of the schema
SeedStart == MakeDatetime(2024, 2, 29, 10, 0).dt

SeededAppointment(st) ==
    [id |-> NewId("appointment", <<>>)]
    @@ [Appointment("c1", "d1", "p0", SeedStart, AddMinutes(SeedStart, 30).dt, None)
          EXCEPT !.status = st]

InitSeeded ==
    /\ \E st \in Statuses : appointment = <<SeededAppointment(st)>>
    /\ InitCommon

SpecSeeded == InitSeeded /\ [][Next]_vars

----------------------------------------------------------------------------
(* Vocabulary of the properties                                            *)

\* half-open interval intersection of a stored appointment with a window
Overlaps(doc, starts_at, ends_at) ==
    DtLt(doc.starts_at, ends_at) /\ DtGt(doc.ends_at, starts_at)

\* some stored appointment of the doctor intersects the window
Booked(collection, doctor_id, starts_at, ends_at) ==
    \E i \in 1..Len(collection) :
        /\ collection[i].doctor_id = doctor_id
        /\ Overlaps(collection[i], starts_at, ends_at)

\* start + duration as an instant of the unbounded calendar
EndInstant(starts_at, n) ==
    [day |-> starts_at.day + ((starts_at.minute + n) \div 1440),
     minute |-> (starts_at.minute + n) % 1440]

Representable(dt) == dt.day >= MinOrdinal /\ dt.day <= MaxOrdinal

IsCreate(r) == r.op = "create_appointment"
IsList(r)   == r.op = "list_appointments"

\* the step inserted exactly one appointment and returned its identifier
InsertedOne ==
    /\ response'.status = 200
    /\ response'.id # NoId
    /\ Len(appointment') = Len(appointment) + 1
    /\ SubSeq(appointment', 1, Len(appointment)) = appointment
    /\ appointment'[Len(appointment')].id = response'.id

\* texts of the input sets that "%Y-%m-%d" / "%H:%M" do not accept
UnparseableDates == {D_Feb30, D_Slashes}
UnparseableTimes == {T_2500}

----------------------------------------------------------------------------
C3_NoDoubleBooking ==
    \A i, j \in 1..Len(appointment) :
        (i # j /\ appointment[i].doctor_id = appointment[j].doctor_id)
        => ~Overlaps(appointment[i], appointment[j].starts_at, appointment[j].ends_at)

\* two adjacent appointments of one doctor are stored
C3_Witness ==
    \E i, j \in 1..Len(appointment) :
        /\ i # j
        /\ appointment[i].doctor_id = appointment[j].doctor_id
        /\ appointment[i].ends_at = appointment[j].starts_at
        /\ DtLt(appointment[i].starts_at, appointment[i].ends_at)
        /\ DtLt(appointment[j].starts_at, appointment[j].ends_at)

C5_EndsAfterStart ==
    \A i \in 1..Len(appointment) :
        DtGt(appointment[i].ends_at, appointment[i].starts_at)

----------------------------------------------------------------------------
(* Listing by date range                                                   *)

EqSatisfied(doc, field, p) == Truthy(p) => doc[field] = p[1]

\* the equality parameters of an appointment query
MatchesIds(doc, q) ==
    /\ EqSatisfied(doc, "clinic_id", q.clinic_id)
    /\ EqSatisfied(doc, "doctor_id", q.doctor_id)
    /\ EqSatisfied(doc, "patient_id", q.patient_id)

\* starts_at on or after 00:00 of from_date, and before 00:00 of the day
\* after to_date, for the bounds that are given
WithinDays(doc, q) ==
    /\ TruthyText(q.from_date) =>
          (/\ StrptimeDate(q.from_date[1]).ok
           /\ doc.starts_at.day >= StrptimeDate(q.from_date[1]).dt.day)
    /\ TruthyText(q.to_date) =>
          (/\ StrptimeDate(q.to_date[1]).ok
           /\ doc.starts_at.day <= StrptimeDate(q.to_date[1]).dt.day)

(* C6: a listing with from_date and/or to_date returns exactly the stored   *)
(* appointments, matching the other filters, that start on or after 00:00   *)
(* of from_date and strictly before 00:00 of the day after to_date.         *)
C6_DateRange ==
    (/\ IsList(request)
     /\ response.status = 200
     /\ TruthyText(request.args.from_date) \/ TruthyText(request.args.to_date))
    => response.body =
          SelectSeq(appointment,
                    LAMBDA doc : MatchesIds(doc, request.args)
                                 /\ WithinDays(doc, request.args))

(* C7: a listing whose from_date or to_date does not parse as YYYY-MM-DD    *)
(* fails with HTTP 400 and returns no records.                              *)
C7_BadDateIs400 ==
    (/\ IsList(request)
     /\ \/ (TruthyText(request.args.from_date)
            /\ request.args.from_date[1] \in UnparseableDates)
        \/ (TruthyText(request.args.to_date)
            /\ request.args.to_date[1] \in UnparseableDates))
    => (response.status = 400 /\ response.body = <<>>)

(* C8: a successful create stores, under the returned id, a record with the *)
(* request's clinic, doctor, patient and reason, starts_at the parsed       *)
(* date and time, ends_at = starts_at + duration_minutes and status         *)
(* "scheduled"; stored records never change or disappear; and every         *)
(* listing returns each stored record that satisfies its filters.           *)
StoredAsRequested(doc, req) ==
    /\ doc.clinic_id = req.clinic_id
    /\ doc.doctor_id = req.doctor_id
    /\ doc.patient_id = req.patient_id
    /\ doc.reason = req.reason
    /\ doc.starts_at = ParseStart(req).dt
    /\ doc.ends_at = EndInstant(ParseStart(req).dt, req.duration_minutes)
    /\ doc.status = "scheduled"

CreatedAsRequested ==
    (IsCreate(request') /\ response'.status = 200)
    => \E i \in 1..Len(appointment') :
          /\ appointment'[i].id = response'.id
          /\ StoredAsRequested(appointment'[i], request'.args)
          /\ \A j \in 1..Len(appointment') :
                appointment'[j].id = response'.id => j = i

RecordsKept ==
    /\ Len(appointment') >= Len(appointment)
    /\ \A i \in 1..Len(appointment) : appointment'[i] = appointment[i]

Listed(doc, body) == \E k \in 1..Len(body) : body[k] = doc

C8_RoundTrip ==
    [][ /\ CreatedAsRequested
        /\ RecordsKept
        /\ IsList(request') =>
              \A i \in 1..Len(appointment') :
                 (MatchesIds(appointment'[i], request'.args)
                  /\ WithinDays(appointment'[i], request'.args))
                 => Listed(appointment'[i], response'.body) ]_vars

(* C10: a create request that fails leaves the appointment collection as it *)
(* was: a date or time that does not parse (an impossible calendar date     *)
(* included) gives 400, and neither a 400 nor a 409 inserts.                *)
C10_FailedCreateChangesNothing ==
    [][ IsCreate(request') =>
          /\ (request'.args.date \in UnparseableDates
              \/ request'.args.start_time \in UnparseableTimes)
             => response'.status = 400
          /\ response'.status # 200 => appointment' = appointment ]_vars

\* 2024-02-30 was refused with 400 while the store held appointments
C10_Witness ==
    /\ IsCreate(request)
    /\ request.args.date = D_Feb30
    /\ response.status = 400
    /\ appointment # <<>>

----------------------------------------------------------------------------
(* Billing: POST/GET /invoices, POST/GET /payments                         *)

\* schemas.Invoice: status defaults to "unpaid"
Invoice(clinic_id, appointment_id, patient_id, doctor_id, items, discount, tax_rate) ==
    [clinic_id |-> clinic_id, appointment_id |-> appointment_id,
     patient_id |-> patient_id, doctor_id |-> doctor_id, items |-> items,
     discount |-> discount, tax_rate |-> tax_rate, status |-> "unpaid"]

InvoiceItem(name, qty, unit_price) ==
    [name |-> name, qty |-> qty, unit_price |-> unit_price]

Payment(clinic_id, invoice_id, amount, method, notes) ==
    [clinic_id |-> clinic_id, invoice_id |-> invoice_id, amount |-> amount,
     method |-> method, notes |-> notes]

MaxDocs == 2

TotalDocs == Len(appointment) + Len(invoice) + Len(payment)

\* POST /invoices
CreateInvoice(req) ==
    /\ TotalDocs < MaxDocs
    /\ request' = [op |-> "create_invoice", args |-> req]
    /\ invoice' = create_document("invoice", invoice,
                      Invoice(req.clinic_id, req.appointment_id, req.patient_id,
                              req.doctor_id, req.items, req.discount, req.tax_rate))
    /\ response' = Ok(NewId("invoice", invoice), <<>>)
    /\ UNCHANGED <<appointment, payment, inflight>>

\* GET /invoices
ListInvoices(q) ==
    /\ request' = [op |-> "list_invoices", args |-> q]
    /\ response' = Ok(NoId, get_documents(invoice,
                         EqClause("clinic_id", q.clinic_id)
                         \o EqClause("status", q.status)))
    /\ UNCHANGED <<appointment, invoice, payment, inflight>>

\* POST /payments
RecordPayment(pay) ==
    /\ TotalDocs < MaxDocs
    /\ request' = [op |-> "record_payment", args |-> pay]
    /\ payment' = create_document("payment", payment, pay)
    /\ response' = Ok(NewId("payment", payment), <<>>)
    /\ UNCHANGED <<appointment, invoice, inflight>>

\* GET /payments
ListPayments(q) ==
    /\ request' = [op |-> "list_payments", args |-> q]
    /\ response' = Ok(NoId, get_documents(payment,
                         EqClause("clinic_id", q.clinic_id)
                         \o EqClause("invoice_id", q.invoice_id)))
    /\ UNCHANGED <<appointment, invoice, payment, inflight>>

\* appointments of two clinics, two doctors and two patients, none of which
\* intersects another
FilterCreateRequests ==
    { AppointmentRequest("c1", "d1", "p1", D_Leap, T_1000, 30, None),
      AppointmentRequest("c2", "d2", "p1", D_Leap, T_1000, 30, None),
      AppointmentRequest("c1", "d2", "p2", D_Leap, T_1030, 30, None),
      AppointmentRequest("c2", "d1", "p2", D_Leap, T_1030, 30, None) }

IdQueries ==
    { AppointmentQuery(c, d, p, None, None)
        : c \in {None, Some(""), Some("c1")},
          d \in {None, Some("d1")},
          p \in {None, Some("p2")} }
    \cup { AppointmentQuery(Some("c2"), None, Some(""), Some(<<>>), Some(<<>>)) }

InvoiceRequests ==
    { [clinic_id |-> c, appointment_id |-> "a1", patient_id |-> "p1",
       doctor_id |-> "d1", items |-> <<>>, discount |-> 0, tax_rate |-> 0]
        : c \in {"c1", "c2"} }
    \cup
    { [clinic_id |-> "c1", appointment_id |-> "a2", patient_id |-> "p2",
       doctor_id |-> "d1", items |-> <<InvoiceItem("visit", 1, 50)>>,
       discount |-> 5, tax_rate |-> 0] }

InvoiceQueries ==
    { [clinic_id |-> c, status |-> st]
        : c \in {None, Some("c1")},
          st \in {None, Some(""), Some("unpaid"), Some("paid")} }

Payments ==
    { Payment("c1", "i1", 50, "cash", None),
      Payment("c2", "i1", 20, "card", Some("partial")),
      Payment("c1", "i2", 500, "insurance", None) }

PaymentQueries ==
    { [clinic_id |-> c, invoice_id |-> i]
        : c \in {None, Some(""), Some("c2")},
          i \in {None, Some("i1")} }

NextLists ==
    \/ \E req \in FilterCreateRequests : TotalDocs < MaxDocs /\ CreateAppointment(req)
    \/ \E q \in IdQueries : ListAppointments(q)
    \/ \E req \in InvoiceRequests : CreateInvoice(req)
    \/ \E q \in InvoiceQueries : ListInvoices(q)
    \/ \E pay \in Payments : RecordPayment(pay)
    \/ \E q \in PaymentQueries : ListPayments(q)

SpecLists == Init /\ [][NextLists]_vars

\* the documents of a sequence, as a set
Docs(seq) == { seq[k] : k \in 1..Len(seq) }

\* the response holds exactly the documents of the set, each once
ReturnsExactly(resp, docs) ==
    /\ resp.status = 200
    /\ Docs(resp.body) = docs
    /\ Len(resp.body) = Cardinality(docs)

(* C9: without a date range, each listing returns exactly the stored        *)
(* records of its collection that equal every supplied non-empty            *)
(* parameter; None and "" add no constraint, and with no parameters every   *)
(* record of the collection is returned.                                    *)
C9_EqualityFilters ==
    /\ (/\ IsList(request)
        /\ ~TruthyText(request.args.from_date)
        /\ ~TruthyText(request.args.to_date))
       => ReturnsExactly(response,
             { d \in Docs(appointment) : MatchesIds(d, request.args) })
    /\ request.op = "list_invoices"
       => ReturnsExactly(response,
             { d \in Docs(invoice) :
                 /\ EqSatisfied(d, "clinic_id", request.args.clinic_id)
                 /\ EqSatisfied(d, "status", request.args.status) })
    /\ request.op = "list_payments"
       => ReturnsExactly(response,
             { d \in Docs(payment) :
                 /\ EqSatisfied(d, "clinic_id", request.args.clinic_id)
                 /\ EqSatisfied(d, "invoice_id", request.args.invoice_id) })

\* a listing by clinic with an empty-string patient returned one of two
\* stored appointments
C9_Witness ==
    /\ IsList(request)
    /\ request.args.clinic_id = Some("c2")
    /\ request.args.patient_id = Some("")
    /\ Len(appointment) = 2
    /\ Len(response.body) = 1
    /\ response.body[1].clinic_id = "c2"

----------------------------------------------------------------------------
(* Concurrent requests: the framework runs each create_appointment call on *)
(* a worker thread; the overlap query and the insert are two separate      *)
(* store operations with nothing held between them.                        *)

RaceRequests ==
    { AppointmentRequest("c1", "d1", "p1", D_Leap, t, 30, None)
        : t \in {T_1000, T_1015, T_1030} }
    \cup
    { AppointmentRequest("c1", "d2", "p1", D_Leap, T_1000, 30, None),
      AppointmentRequest("c1", "d1", "p1", D_Feb30, T_1000, 30, None) }

\* workers that have passed the overlap check and not yet inserted
Pending == { w \in Workers : inflight[w].pc = "checked" }

\* create_appointment from its first line to the overlap check
Checked(w, req, c) ==
    /\ inflight[w].pc = "idle"
    /\ c.pass => Len(appointment) + Cardinality(Pending) < MaxAppts
    /\ inflight' = [inflight EXCEPT ![w] =
          IF c.pass
          THEN [pc |-> "checked", req |-> req, starts_at |-> c.starts_at,
                ends_at |-> c.ends_at, resp |-> Idle.resp]
          ELSE [pc |-> "done", req |-> req, starts_at |-> NoDatetime,
                ends_at |-> NoDatetime, resp |-> c.resp]]
    /\ UNCHANGED <<appointment, invoice, payment, request, response>>

Check(w, req) == Checked(w, req, CheckAppointment(appointment, req))

\* variant: the overlap query is repeated before the insert
InsertIf(w, f, c) ==
    /\ f.pc = "checked"
    /\ IF c.pass
       THEN /\ appointment' = create_document("appointment", appointment,
                                  BuildAppointment(f.req, f.starts_at, f.ends_at))
            /\ inflight' = [inflight EXCEPT ![w] =
                  [f EXCEPT !.pc = "done",
                            !.resp = Ok(NewId("appointment", appointment), <<>>)]]
       ELSE /\ appointment' = appointment
            /\ inflight' = [inflight EXCEPT ![w] =
                  [f EXCEPT !.pc = "done", !.resp = c.resp]]
    /\ UNCHANGED <<invoice, payment, request, response>>

Insert_Rechecked(w) ==
    InsertIf(w, inflight[w], CheckAppointment(appointment, inflight[w].req))

\* create_appointment from the construction of the record to its return
Insert(w) ==
    LET f == inflight[w]
    IN  /\ f.pc = "checked"
        /\ appointment' = create_document("appointment", appointment,
                              BuildAppointment(f.req, f.starts_at, f.ends_at))
        /\ inflight' = [inflight EXCEPT ![w] =
              [f EXCEPT !.pc = "done",
                        !.resp = Ok(NewId("appointment", appointment), <<>>)]]
        /\ UNCHANGED <<invoice, payment, request, response>>

\* the response is delivered and the worker takes the next request
Return(w) ==
    /\ inflight[w].pc = "done"
    /\ inflight' = [inflight EXCEPT ![w] = Idle]
    /\ UNCHANGED <<appointment, invoice, payment, request, response>>

NextRace ==
    \/ \E w \in Workers, req \in RaceRequests : Check(w, req)
    \/ \E w \in Workers : Insert(w)
    \/ \E w \in Workers : Return(w)

SpecRace == Init /\ [][NextRace]_vars

(* C4: a request that has passed the overlap check inserts and returns an   *)
(* id whatever the store holds by then, so two requests of one doctor with  *)
(* intersecting windows whose queries both run before either insert are     *)
(* both stored.                                                             *)
C4_InsertAfterCheckUnconditional ==
    [][ \A w \in Workers :
        /\ (inflight[w].pc = "idle" /\ inflight'[w].resp.status = 409)
           => Booked(appointment, inflight'[w].req.doctor_id,
                     ParseStart(inflight'[w].req).dt,
                     EndInstant(ParseStart(inflight'[w].req).dt,
                                inflight'[w].req.duration_minutes))
        /\ (inflight[w].pc = "checked" /\ inflight'[w] # inflight[w])
          => /\ inflight'[w].pc = "done"
             /\ inflight'[w].resp.status = 200
             /\ inflight'[w].resp.id # NoId
             /\ Len(appointment') = Len(appointment) + 1
             /\ SubSeq(appointment', 1, Len(appointment)) = appointment
             /\ LET new == appointment'[Len(appointment')]
                IN  /\ new.id = inflight'[w].resp.id
                    /\ new.doctor_id = inflight[w].req.doctor_id
                    /\ new.starts_at = inflight[w].starts_at
                    /\ new.ends_at = inflight[w].ends_at ]_vars

\* both workers were answered with the ids of two stored appointments of
\* one doctor whose windows intersect
C4_Witness ==
    \E w, v \in Workers :
        /\ w # v
        /\ inflight[w].pc = "done" /\ inflight[w].resp.status = 200
        /\ inflight[v].pc = "done" /\ inflight[v].resp.status = 200
        /\ \E i, j \in 1..Len(appointment) :
              /\ i # j
              /\ appointment[i].id = inflight[w].resp.id
              /\ appointment[j].id = inflight[v].resp.id
              /\ appointment[i].doctor_id = appointment[j].doctor_id
              /\ Overlaps(appointment[i], appointment[j].starts_at,
                          appointment[j].ends_at)

====
